---- MODULE Spec2Model ----
(***************************************************************************)
(* Model of the two scripts of the repository:                             *)
(*   scripts/convert_aio.py         raw node graph -> flattened prompt map *)
(*   scripts/build_aio_workflows.py flattened map  -> per-variant subsets  *)
(* Spec      is the run of convert_aio.py on a bounded family of raw       *)
(*           graphs.                                                        *)
(* SpecBuild is the run of build_aio_workflows.py on a bounded family of   *)
(*           flattened maps, build being called on keep sets drawn from a  *)
(*           small universe of ids.                                        *)
(***************************************************************************)
EXTENDS Integers, Sequences, FiniteSets, TLC

VARIABLES
    data,        \* convert: the loaded raw graph [nodes, links]
    pc,          \* position of the running script
    ni,          \* convert: index of the node the outer loop is at
    ii,          \* convert: index of the input the inner loop is at
    entry,       \* convert: the entry being built for the current node
    widgets,     \* convert: widgets_values of the current node
    mapping,     \* convert: KSampler mapping of the current node, or NoMapping
    widget_idx,  \* convert: the positional cursor
    prompt,      \* both scripts: the module-level flattened map
    neg_id,      \* convert: id of the synthesized negative node
    flat0,       \* convert: prompt as it stood when line 67 was reached
    ei,          \* convert: index of the next set_link call
    dst,         \* convert: the written output document, NotWritten before
    src_doc,     \* build: the document read from disk (never written back)
    outs         \* build: the documents written so far, in call order

vars == <<data, pc, ni, ii, entry, widgets, mapping, widget_idx, prompt,
          neg_id, flat0, ei, dst, src_doc, outs>>

----------------------------------------------------------------------------
(* JSON values.  Every value is a record of one shape, so that values of   *)
(* different JSON types can be compared.                                    *)

Int_(n) == [t |-> "int", n |-> n, s |-> "", items |-> <<>>]

Str_(s) == [t |-> "str", n |-> 0, s |-> s, items |-> <<>>]

List_(items) == [t |-> "list", n |-> 0, s |-> "", items |-> items]

\* the dict with no key
EmptyMap == [k \in {} |-> Int_(0)]

\* the JSON form of a Reference: [producer id string, slot]
Reference(p, slot) == List_(<<Str_(p), Int_(slot)>>)

\* str(n) of an integer node id
PyStr(n) == ToString(n)

----------------------------------------------------------------------------
(* Bounds of the raw graphs convert_aio.py is run on.                      *)

\* most nodes of a raw graph
MaxNodes == 2

\* most declared inputs of the node of a one-node graph
MaxInputs == 2

\* longest positional widgets_values
MaxWidgets == 2

\* node ids raw nodes are drawn from
NodeIds == {9, 28, 53}

Types == {"KSampler", "CLIPLoader", "UnetLoaderGGUF"}

\* the declared input ports of a node type, in declared order (the external
\* schema the raw graph follows)
DeclaredPorts(type) ==
    CASE type = "KSampler" -> <<"seed", "model", "steps", "cfg">>
      [] type = "UnetLoaderGGUF" -> <<"unet_name", "device", "dtype", "offload">>
      [] OTHER -> <<"clip_name", "type", "device", "dtype">>

\* the values a positional widgets_values holds, by position
WidgetPool ==
    <<Int_(7), List_(<<Str_("a"), Int_(5)>>), Int_(20), Int_(3)>>

NoWidgets == [kind |-> "none", list |-> <<>>, dict |-> EmptyMap]

ListWidgets(n) == [kind |-> "list", list |-> SubSeq(WidgetPool, 1, n), dict |-> EmptyMap]

DictWidgets ==
    [kind |-> "dict", list |-> <<>>,
     dict |-> [k \in {"seed", "unet_name"} |-> IF k = "seed" THEN Int_(11) ELSE Str_("m.gguf")]]

WidgetSources == {NoWidgets, DictWidgets} \cup {ListWidgets(n) : n \in 0..MaxWidgets}

\* entries of data['links']: [link id, producer, producer slot, consumer, slot]
Link1 == <<1, 9, 0, 28, 0>>

Link2 == <<2, 53, 1, 28, 1>>

\* the lists data['links'] is drawn from
LinkLists == {<<>>, <<Link1>>, <<Link1, Link2>>}

\* what the link field of a declared input holds: None, or a link id
LinkFields ==
    {[has_link |-> FALSE, link |-> 0]} \cup
    {[has_link |-> TRUE, link |-> l[1]] : l \in {Link1, Link2}}

\* an input port as declared in the raw graph; link is read only if has_link
Input(name, lf, widget) ==
    [name |-> name, has_link |-> lf.has_link, link |-> lf.link, widget |-> widget]

\* the input lists of length k of a node of the given type
InputLists(type, k) ==
    {[i \in 1..k |-> Input(DeclaredPorts(type)[i], f[i][1], f[i][2])] :
        f \in [1..k -> LinkFields \X BOOLEAN]}

RawNode(id, type, inputs, w) ==
    [id |-> id, type |-> type, inputs |-> inputs, widgets_values |-> w]

\* one-node graphs: every input shape and widget source
RichNodes ==
    UNION {{RawNode(id, type, inputs, w) :
                id \in NodeIds, w \in WidgetSources,
                inputs \in UNION {InputLists(type, k) : k \in 0..MaxInputs}} :
           type \in Types}

\* nodes of the many-node graphs: no widget, at most one linked input
PlainNodes ==
    UNION {{RawNode(id, type, inputs, NoWidgets) :
                id \in NodeIds,
                inputs \in {<<>>} \cup
                    {<<Input(DeclaredPorts(type)[1], lf, FALSE)>> : lf \in LinkFields}} :
           type \in Types}

DistinctIds(ns) == \A i, j \in 1..Len(ns) : i # j => ns[i].id # ns[j].id

NodeLists ==
    {<<n>> : n \in RichNodes} \cup
    {ns \in UNION {[1..k -> PlainNodes] : k \in 2..MaxNodes} : DistinctIds(ns)}

RawGraphs == {[nodes |-> ns, links |-> ls] : ns \in NodeLists, ls \in LinkLists}

----------------------------------------------------------------------------
(* convert_aio.py                                                          *)

NotWritten == [written |-> FALSE, doc |-> EmptyMap]

Written(doc) == [written |-> TRUE, doc |-> doc]

NoMapping == [set |-> FALSE, m |-> EmptyMap]

NoEntry == [class_type |-> "", inputs |-> EmptyMap]

\* links = {l[0]: l for l in data['links']}: a later entry replaces an earlier
RECURSIVE LinkTable(_)
LinkTable(ls) ==
    IF ls = <<>> THEN [k \in {} |-> <<>>]
    ELSE LET rest == LinkTable(SubSeq(ls, 1, Len(ls) - 1))
             l == ls[Len(ls)]
         IN [k \in DOMAIN rest \cup {l[1]} |-> IF k = l[1] THEN l ELSE rest[k]]

links == LinkTable(data.links)

nodes == data.nodes

\* d[k] = v on a dict
Put(d, k, v) == [x \in DOMAIN d \cup {k} |-> IF x = k THEN v ELSE d[x]]

\* the KSampler mapping: widgets[i] if present, else the default
KSamplerMapping(w) ==
    LET at(i, default) == IF Len(w) > i THEN w[i + 1] ELSE default
    IN [set |-> TRUE,
        m |-> [k \in {"seed", "steps", "cfg", "sampler_name", "scheduler", "denoise"} |->
                CASE k = "seed" -> at(0, Int_(0))
                  [] k = "steps" -> at(2, Int_(4))
                  [] k = "cfg" -> at(3, Int_(5))
                  [] k = "sampler_name" -> at(4, Str_("euler"))
                  [] k = "scheduler" -> at(5, Str_("beta"))
                  [] OTHER -> at(6, Int_(1))]]

Init ==
    /\ data \in RawGraphs
    /\ pc = "loop"
    /\ ni = 1
    /\ ii = 1
    /\ entry = NoEntry
    /\ widgets = NoWidgets
    /\ mapping = NoMapping
    /\ widget_idx = 0
    /\ prompt = EmptyMap
    /\ neg_id = ""
    /\ flat0 = EmptyMap
    /\ ei = 1
    /\ dst = NotWritten
    /\ src_doc = EmptyMap
    /\ outs = <<>>

\* lines 15-35: the head of the node loop
StartNode ==
    /\ pc = "loop"
    /\ ni <= Len(nodes)
    /\ LET node == nodes[ni]
       IN /\ entry' = [class_type |-> node.type, inputs |-> EmptyMap]
          /\ widgets' = node.widgets_values
          /\ mapping' = IF node.type = "KSampler" /\ node.widgets_values.kind = "list"
                        THEN KSamplerMapping(node.widgets_values.list)
                        ELSE NoMapping
    /\ widget_idx' = 0
    /\ ii' = 1
    /\ pc' = "inputs"
    /\ UNCHANGED <<data, ni, prompt, neg_id, flat0, ei, dst, src_doc, outs>>

inp == nodes[ni].inputs[ii]

\* mutant of LinkedAdvances: a linked input never moves the cursor
LinkedNeverAdvances(in, w) == FALSE

\* whether the cursor moves on a linked input (line 44)
LinkedAdvances(in, w) == in.widget /\ w.kind = "list"

\* lines 39-46, the link is in the table
InputLinked ==
    /\ pc = "inputs"
    /\ ii <= Len(nodes[ni].inputs)
    /\ inp.has_link
    /\ inp.link \in DOMAIN links
    /\ LET link == links[inp.link]
       IN entry' = [entry EXCEPT !.inputs =
                        Put(@, inp.name, Reference(PyStr(link[2]), link[3]))]
    /\ widget_idx' = IF LinkedAdvances(inp, widgets) THEN widget_idx + 1 ELSE widget_idx
    /\ ii' = ii + 1
    /\ UNCHANGED <<data, pc, ni, widgets, mapping, prompt, neg_id, flat0, ei, dst, src_doc, outs>>

\* mutant of InputLinkMissing: links.get(...) and skip, the input is dropped
InputLinkDropped ==
    /\ pc = "inputs"
    /\ ii <= Len(nodes[ni].inputs)
    /\ inp.has_link
    /\ inp.link \notin DOMAIN links
    /\ ii' = ii + 1
    /\ UNCHANGED <<data, pc, ni, entry, widgets, mapping, widget_idx, prompt, neg_id, flat0,
                   ei, dst, src_doc, outs>>

\* line 40 raises KeyError: the script ends there
InputLinkMissing ==
    /\ pc = "inputs"
    /\ ii <= Len(nodes[ni].inputs)
    /\ inp.has_link
    /\ inp.link \notin DOMAIN links
    /\ pc' = "aborted"
    /\ UNCHANGED <<data, ni, ii, entry, widgets, mapping, widget_idx, prompt, neg_id, flat0,
                   ei, dst, src_doc, outs>>

\* lines 48-57 for an unlinked input: the inputs of the entry afterwards
WidgetBinding(in, e, w, mp, idx) ==
    IF ~in.widget THEN e.inputs
    ELSE IF mp.set /\ in.name \in DOMAIN mp.m THEN Put(e.inputs, in.name, mp.m[in.name])
    ELSE IF w.kind = "dict"
         THEN IF in.name \in DOMAIN w.dict THEN Put(e.inputs, in.name, w.dict[in.name])
              ELSE e.inputs
    ELSE IF w.kind = "list" /\ idx < Len(w.list) THEN Put(e.inputs, in.name, w.list[idx + 1])
    ELSE e.inputs

\* lines 48-57 for an unlinked input: the cursor afterwards
WidgetCursor(in, w, mp, idx) ==
    IF in.widget /\ ~(mp.set /\ in.name \in DOMAIN mp.m) /\ w.kind = "list"
    THEN idx + 1
    ELSE idx

InputUnlinked ==
    /\ pc = "inputs"
    /\ ii <= Len(nodes[ni].inputs)
    /\ ~inp.has_link
    /\ entry' = [entry EXCEPT !.inputs = WidgetBinding(inp, entry, widgets, mapping, widget_idx)]
    /\ widget_idx' = WidgetCursor(inp, widgets, mapping, widget_idx)
    /\ ii' = ii + 1
    /\ UNCHANGED <<data, pc, ni, widgets, mapping, prompt, neg_id, flat0, ei, dst, src_doc, outs>>

\* line 59
FinishNode ==
    /\ pc = "inputs"
    /\ ii > Len(nodes[ni].inputs)
    /\ prompt' = Put(prompt, PyStr(nodes[ni].id), entry)
    /\ ni' = ni + 1
    /\ pc' = "loop"
    /\ UNCHANGED <<data, ii, entry, widgets, mapping, widget_idx, neg_id, flat0, ei, dst,
                   src_doc, outs>>

ModelFile == Str_("wan2.2-rapid-mega-aio-nsfw-v12.1-Q8_0.gguf")

\* lines 62-65 on one node
OverrideNode(node) ==
    IF node.class_type = "UnetLoaderGGUF" /\ "unet_name" \in DOMAIN node.inputs
    THEN [node EXCEPT !.inputs = Put(@, "unet_name", ModelFile)]
    ELSE node

\* lines 61-65, once the node loop is over
OverrideModelName ==
    /\ pc = "loop"
    /\ ni > Len(nodes)
    /\ prompt' = [nid \in DOMAIN prompt |-> OverrideNode(prompt[nid])]
    /\ pc' = "synth"
    /\ UNCHANGED <<data, ni, ii, entry, widgets, mapping, widget_idx, neg_id, flat0, ei, dst,
                   src_doc, outs>>

\* line 68
MaxId(ns) == CHOOSE m \in {ns[i].id : i \in 1..Len(ns)} : \A i \in 1..Len(ns) : ns[i].id <= m

\* lines 71-75: prompt is filled in the order of nodes, so the first CLIPLoader
\* of prompt.items() is the first one of nodes; 0 when there is none
ClipLoaderIndex(ns) ==
    LET found == {i \in 1..Len(ns) : ns[i].type = "CLIPLoader"}
    IN IF found = {} THEN 0 ELSE CHOOSE i \in found : \A j \in found : i <= j

\* lines 78-84
NegativeNode(clip_loader_id) ==
    [class_type |-> "CLIPTextEncode",
     inputs |-> [k \in {"clip", "text"} |->
                    IF k = "clip" THEN Reference(clip_loader_id, 0) ELSE Str_("")]]

\* lines 67-84
SynthesizeNegative ==
    /\ pc = "synth"
    /\ neg_id' = PyStr(MaxId(nodes) + 1)
    /\ LET c == ClipLoaderIndex(nodes)
       IN prompt' = IF c # 0
                    THEN Put(prompt, neg_id', NegativeNode(PyStr(nodes[c].id)))
                    ELSE prompt
    /\ flat0' = prompt
    /\ ei' = 1
    /\ pc' = "wire"
    /\ UNCHANGED <<data, ni, ii, entry, widgets, mapping, widget_idx, dst, src_doc, outs>>

\* mutant of set_link: prompt.setdefault(node_id, {}) instead of the early return
set_link_creating(p, node_id, input_name, src_id, src_slot) ==
    IF node_id \notin DOMAIN p
    THEN Put(p, node_id, [class_type |-> "",
                          inputs |-> Put(EmptyMap, input_name, Reference(src_id, src_slot))])
    ELSE [p EXCEPT ![node_id].inputs = Put(@, input_name, Reference(src_id, src_slot))]

\* lines 88-92; the ids the script passes are strings already, str() keeps them
set_link(p, node_id, input_name, src_id, src_slot) ==
    IF node_id \notin DOMAIN p THEN p
    ELSE [p EXCEPT ![node_id].inputs = Put(@, input_name, Reference(src_id, src_slot))]

\* lines 96-110: the set_link calls in the order the script makes them
Calls(neg) ==
    << [node_id |-> "8", input_name |-> "model", src_id |-> "32", src_slot |-> 0],
       [node_id |-> "55", input_name |-> "model", src_id |-> "32", src_slot |-> 0],
       [node_id |-> "28", input_name |-> "vae", src_id |-> "53", src_slot |-> 0],
       [node_id |-> "54", input_name |-> "vae", src_id |-> "53", src_slot |-> 0],
       [node_id |-> "11", input_name |-> "vae", src_id |-> "53", src_slot |-> 0],
       [node_id |-> "56", input_name |-> "vae", src_id |-> "53", src_slot |-> 0],
       [node_id |-> "28", input_name |-> "positive", src_id |-> "9", src_slot |-> 0],
       [node_id |-> "54", input_name |-> "positive", src_id |-> "9", src_slot |-> 0],
       [node_id |-> "28", input_name |-> "negative", src_id |-> neg, src_slot |-> 0],
       [node_id |-> "54", input_name |-> "negative", src_id |-> neg, src_slot |-> 0] >>

\* one set_link call of lines 96-110
Wire ==
    /\ pc = "wire"
    /\ ei <= Len(Calls(neg_id))
    /\ LET c == Calls(neg_id)[ei]
       IN prompt' = set_link(prompt, c.node_id, c.input_name, c.src_id, c.src_slot)
    /\ ei' = ei + 1
    /\ UNCHANGED <<data, pc, ni, ii, entry, widgets, mapping, widget_idx, neg_id, flat0, dst,
                   src_doc, outs>>

\* lines 112-114
Save ==
    /\ pc = "wire"
    /\ ei > Len(Calls(neg_id))
    /\ dst' = Written(prompt)
    /\ pc' = "done"
    /\ UNCHANGED <<data, ni, ii, entry, widgets, mapping, widget_idx, prompt, neg_id, flat0, ei,
                   src_doc, outs>>

Next ==
    \/ StartNode
    \/ InputLinked
    \/ InputLinkMissing
    \/ InputUnlinked
    \/ FinishNode
    \/ OverrideModelName
    \/ SynthesizeNegative
    \/ Wire
    \/ Save

Spec == Init /\ [][Next]_vars

----------------------------------------------------------------------------
(* build_aio_workflows.py                                                  *)

\* most inputs of a node of a flattened map build is run on
MaxFlatInputs == 1

\* ids of the nodes a flattened map may hold
FlatIds == {"9", "28"}

\* ids a keep set may name: "9" is in i2v_ids and t2v_ids, "28" in t2v_ids
\* only, "54" in i2v_ids only (lines 8-9)
KeepIds == {"9", "28", "54"}

FlatPorts == <<"clip", "vae", "text">>

\* values of the inputs of a flattened node: a literal, References to ids of
\* KeepIds, and lists that are no Reference
FlatValues ==
    {Int_(5), Reference("9", 0), Reference("28", 0), Reference("54", 0),
     List_(<<Str_("a"), Int_(5)>>), List_(<<Int_(1), Int_(2)>>)}

FlatInputs ==
    UNION {[S -> FlatValues] :
            S \in SUBSET {FlatPorts[i] : i \in 1..MaxFlatInputs}}

FlatNodes == {[class_type |-> "CLIPTextEncode", inputs |-> ins] : ins \in FlatInputs}

FlatMaps == UNION {[S -> FlatNodes] : S \in SUBSET FlatIds}

NoData == [nodes |-> <<>>, links |-> <<>>]

\* lines 4-6: prompt is the document read from disk
InitBuild ==
    /\ src_doc \in FlatMaps
    /\ prompt = src_doc
    /\ outs = <<>>
    /\ pc = "i2v"
    /\ data = NoData
    /\ ni = 1
    /\ ii = 1
    /\ entry = NoEntry
    /\ widgets = NoWidgets
    /\ mapping = NoMapping
    /\ widget_idx = 0
    /\ neg_id = ""
    /\ flat0 = EmptyMap
    /\ ei = 1
    /\ dst = NotWritten

\* line 18: the shape build takes for a Reference
IsRefShape(val) == val.t = "list" /\ Len(val.items) = 2 /\ val.items[1].t = "str"

\* mutant of Keeps: the membership test inverted
KeepsInverted(val, subset) == IF IsRefShape(val) THEN val.items[1].s \notin subset ELSE TRUE

\* lines 18-22: whether an input value goes into clean
Keeps(val, subset) == IF IsRefShape(val) THEN val.items[1].s \in subset ELSE TRUE

\* lines 16-22
Clean(inputs, subset) ==
    [key \in {k \in DOMAIN inputs : Keeps(inputs[k], subset)} |-> inputs[key]]

\* lines 13-23: the map out that build dumps
Extract(p, subset) ==
    [nid \in DOMAIN p \cap subset |-> [p[nid] EXCEPT !.inputs = Clean(@, subset)]]

\* line 23: out holds the node objects of prompt, so node['inputs'] = clean
\* is an assignment to the node of prompt as well
PromptAfterBuild(p, subset) ==
    [nid \in DOMAIN p |-> IF nid \in subset THEN Extract(p, subset)[nid] ELSE p[nid]]

\* lines 12-26: one call of build
build(subset, next) ==
    /\ outs' = Append(outs, [subset |-> subset, doc |-> Extract(prompt, subset)])
    /\ prompt' = PromptAfterBuild(prompt, subset)
    /\ pc' = next
    /\ UNCHANGED <<data, ni, ii, entry, widgets, mapping, widget_idx, neg_id, flat0, ei,
                   dst, src_doc>>

\* line 28, the keep set being an input
BuildI2V ==
    /\ pc = "i2v"
    /\ \E subset \in SUBSET KeepIds : build(subset, "t2v")

\* line 29, the keep set being an input
BuildT2V ==
    /\ pc = "t2v"
    /\ \E subset \in SUBSET KeepIds : build(subset, "built")

NextBuild ==
    \/ BuildI2V
    \/ BuildT2V

SpecBuild == InitBuild /\ [][NextBuild]_vars

----------------------------------------------------------------------------
(* Vocabulary of the claims                                                *)

\* the strings that are node ids: str() of a raw id or of its successor, and
\* the ids the scripts name
IdStrings ==
    {PyStr(n) : n \in NodeIds} \cup {PyStr(n + 1) : n \in NodeIds} \cup KeepIds
    \cup {Calls("")[i].node_id : i \in 1..Len(Calls(""))} \cup {"32", "53", "9"}

\* a Reference of the output format: [node id string, integer slot]
IsReference(val) ==
    /\ val.t = "list"
    /\ Len(val.items) = 2
    /\ val.items[1].t = "str"
    /\ val.items[1].s \in IdStrings
    /\ val.items[2].t = "int"

\* every Reference of the map names a key of the map
NoDangling(p) ==
    \A nid \in DOMAIN p : \A k \in DOMAIN p[nid].inputs :
        IsReference(p[nid].inputs[k]) => p[nid].inputs[k].items[1].s \in DOMAIN p

\* an input of the raw graph declares a link id the links table lacks
Malformed(in) == in.has_link /\ in.link \notin DOMAIN links

HasMalformedLink ==
    \E i \in 1..Len(nodes) : \E j \in 1..Len(nodes[i].inputs) : Malformed(nodes[i].inputs[j])

\* the inputs of the current node the inner loop has gone past
Passed == IF pc = "inputs" THEN 1..(ii - 1) ELSE {}

\* number of widget-flagged inputs among the first k of the current node
WidgetFlagged(k) == Cardinality({j \in 1..k : nodes[ni].inputs[j].widget})

\* an unlinked widget input the KSampler mapping covers
Overridden(in) == ~in.has_link /\ in.widget /\ mapping.set /\ in.name \in DOMAIN mapping.m

\* number of array slots the first k inputs of the current node have used up:
\* the widget-flagged ones that are linked or bound by the positional fallback
SlotsUsed(k) ==
    Cardinality({j \in 1..k : nodes[ni].inputs[j].widget /\ ~Overridden(nodes[ni].inputs[j])})

\* the unlinked widget inputs of the current node, by index
UnlinkedWidget == {j \in 1..Len(nodes[ni].inputs) :
                    nodes[ni].inputs[j].widget /\ ~nodes[ni].inputs[j].has_link}

----------------------------------------------------------------------------
(* Claims on build_aio_workflows.py, under SpecBuild                       *)

\* C1: build does not mutate the source map it reads: after build(A) the map
\* is what was loaded, and build(B) after build(A) writes what build(B) on
\* the loaded map would write.
C1_SourceMapUnchanged ==
    /\ pc \in {"t2v", "built"} => prompt = src_doc
    /\ pc = "built" => outs[2].doc = Extract(src_doc, outs[2].subset)

\* C2: subset soundness: the written map has the keys keep \cap keys(flat),
\* and every Reference left in it names a key of the written map.
C2_SubsetSound ==
    pc \in {"t2v", "built"} =>
        /\ DOMAIN outs[1].doc = outs[1].subset \cap DOMAIN src_doc
        /\ NoDangling(outs[1].doc)

\* C5: subset monotonicity: when keep2 is a subset of keep1, the map written
\* for keep2 after the one for keep1 is extract(flat, keep2) and is
\* extract(extract(flat, keep1), keep2).
C5_SubsetMonotone ==
    (pc = "built" /\ outs[2].subset \subseteq outs[1].subset) =>
        /\ outs[2].doc = Extract(src_doc, outs[2].subset)
        /\ outs[2].doc = Extract(outs[1].doc, outs[2].subset)

\* C5 witness: keep2 a proper subset of keep1, and a Reference that the
\* first extraction kept is dropped by the second.
C5_Witness ==
    /\ pc = "built"
    /\ outs[2].subset \subseteq outs[1].subset
    /\ outs[2].subset # outs[1].subset
    /\ \E nid \in DOMAIN outs[2].doc :
          DOMAIN outs[2].doc[nid].inputs # DOMAIN outs[1].doc[nid].inputs

\* C7: every literal (non-Reference) input of a retained node is in the
\* written map with its value, lists included.
C7_LiteralsKept ==
    pc \in {"t2v", "built"} =>
        \A nid \in DOMAIN outs[1].doc : \A k \in DOMAIN src_doc[nid].inputs :
            ~IsReference(src_doc[nid].inputs[k]) =>
                /\ k \in DOMAIN outs[1].doc[nid].inputs
                /\ outs[1].doc[nid].inputs[k] = src_doc[nid].inputs[k]

----------------------------------------------------------------------------
(* Claims on convert_aio.py, under Spec                                    *)

\* C3: round-trip completeness: when every declared link is in the links
\* table, the written map has no dangling Reference.
C3_NoDanglingOutput ==
    (dst.written /\ ~HasMalformedLink) => NoDangling(dst.doc)

\* C4 as claimed: on a node bound by the positional fallback whose array has
\* one element per unlinked widget input, the i-th unlinked widget input is
\* bound to element i, wherever the linked inputs stand.
C4_AlignedToUnlinked ==
    (/\ pc = "inputs"
     /\ ii > Len(nodes[ni].inputs)
     /\ widgets.kind = "list"
     /\ ~mapping.set
     /\ Len(widgets.list) = Cardinality(UnlinkedWidget)) =>
        \A j \in UnlinkedWidget :
            LET name == nodes[ni].inputs[j].name
                i == Cardinality({x \in UnlinkedWidget : x < j})
            IN /\ name \in DOMAIN entry.inputs
               /\ entry.inputs[name] = widgets.list[i + 1]

\* C4 amended: an unlinked widget input that no type-specific override covers
\* is bound to the array element at the number of slots used up before it,
\* linked widget-flagged inputs counted, and is left out when the array has
\* no such element.
C4_AlignedToSlots ==
    [][(/\ pc = "inputs"
        /\ ii <= Len(nodes[ni].inputs)
        /\ ~inp.has_link
        /\ inp.widget
        /\ widgets.kind = "list"
        /\ ~Overridden(inp)
        /\ ii' = ii + 1) =>
            IF SlotsUsed(ii - 1) < Len(widgets.list)
            THEN /\ inp.name \in DOMAIN entry'.inputs
                 /\ entry'.inputs[inp.name] = widgets.list[SlotsUsed(ii - 1) + 1]
            ELSE inp.name \notin DOMAIN entry'.inputs]_vars

\* C4 witness: an unlinked widget input standing after a linked widget-flagged
\* one has been bound to the second element of the array.
C4_Witness ==
    /\ pc = "inputs"
    /\ ii = 3
    /\ ~mapping.set
    /\ widgets.kind = "list"
    /\ nodes[ni].inputs[1].has_link /\ nodes[ni].inputs[1].widget
    /\ ~nodes[ni].inputs[2].has_link /\ nodes[ni].inputs[2].widget
    /\ nodes[ni].inputs[2].name \in DOMAIN entry.inputs
    /\ entry.inputs[nodes[ni].inputs[2].name] = widgets.list[2]

\* C6: a declared link id the links table lacks is fatal: nothing is
\* written, the run gets no further than the node loop and ends aborted, and
\* no input with such a link is ever gone past.
C6_MalformedLinkFatal ==
    HasMalformedLink =>
        /\ dst = NotWritten
        /\ pc \in {"loop", "inputs", "aborted"}
        /\ pc = "aborted" \/ ENABLED Next
        /\ \A j \in Passed : ~Malformed(nodes[ni].inputs[j])
        /\ \A i \in 1..(ni - 1) : \A j \in 1..Len(nodes[i].inputs) :
              ~Malformed(nodes[i].inputs[j])

\* C6 witness: the run aborted on a malformed link after a node had been
\* compiled, and nothing is written.
C6_Witness ==
    /\ pc = "aborted"
    /\ prompt # EmptyMap
    /\ Malformed(inp)
    /\ dst = NotWritten

\* C8: a set_link call on a node id that is no key of the map changes nothing
\* and raises nothing; on a key it sets inputs[input_name] to
\* [src_id, src_slot] and changes nothing else.
C8_SetLinkEffect ==
    [][(pc = "wire" /\ ei <= Len(Calls(neg_id)) /\ ei' = ei + 1) =>
        LET c == Calls(neg_id)[ei]
        IN /\ pc' = "wire"
           /\ DOMAIN prompt' = DOMAIN prompt
           /\ \A nid \in DOMAIN prompt : nid # c.node_id => prompt'[nid] = prompt[nid]
           /\ c.node_id \in DOMAIN prompt =>
                /\ prompt'[c.node_id].class_type = prompt[c.node_id].class_type
                /\ DOMAIN prompt'[c.node_id].inputs =
                      DOMAIN prompt[c.node_id].inputs \cup {c.input_name}
                /\ prompt'[c.node_id].inputs[c.input_name] = Reference(c.src_id, c.src_slot)
                /\ \A k \in DOMAIN prompt[c.node_id].inputs : k # c.input_name =>
                      prompt'[c.node_id].inputs[k] = prompt[c.node_id].inputs[k]]_vars

\* C8 witness: the first three calls are done; "8" and "55" were no keys and
\* are none, "28" was a key and has its vae input set.
C8_Witness ==
    /\ pc = "wire"
    /\ ei = 4
    /\ "8" \notin DOMAIN prompt
    /\ "55" \notin DOMAIN prompt
    /\ "28" \in DOMAIN prompt
    /\ "vae" \in DOMAIN prompt["28"].inputs
    /\ prompt["28"].inputs["vae"] = Reference("53", 0)

\* C9: on a node with a positional array, after the first k inputs the cursor
\* is the number of widget-flagged inputs among them.
C9_CursorCountsFlagged ==
    (pc = "inputs" /\ widgets.kind = "list") => widget_idx = WidgetFlagged(ii - 1)

\* C10: node synthesis and rewiring keep referential integrity: a map with
\* no dangling Reference at line 67 has none after the last set_link call.
C10_IntegrityPreserved ==
    (pc = "done" /\ NoDangling(flat0)) => NoDangling(prompt)

====
